---- MODULE Spec2Model ----
(***************************************************************************)
(* A model of the ACF archive engine (src/src/acf.cc): the archive writer  *)
(* (Create), the archive reader (List, ExtractData, ExtractAll), the CRC32 *)
(* codec and the on-disk layout, byte for byte.                            *)
(*                                                                         *)
(* An archive is a sequence of bytes (0..255).  A 32-bit word is kept as   *)
(* its four little-endian bytes, which is also how it lies on disk.        *)
(***************************************************************************)
EXTENDS Integers, Sequences, FiniteSets, TLC

(***************************************************************************)
(* Bounds of the model.                                                    *)
(***************************************************************************)
\* longest source file content, in bytes
MaxLen == 2
\* longest list of input paths handed to Create
MaxInputs == 2

(***************************************************************************)
(* Bytes and words.                                                        *)
(***************************************************************************)
Byte == 0..255

\* bitwise exclusive or of two bytes (C++ operator ^ on 8 bits)
RECURSIVE XorN(_, _, _)
XorN(a, b, n) ==
  IF n = 0 THEN 0
  ELSE ((a + b) % 2) + 2 * XorN(a \div 2, b \div 2, n - 1)

\* the exclusive or of every two 4-bit values, then of every two bytes,
\* tabulated once: entry 16 * a + b + 1, then entry 256 * a + b + 1
XorNibble == SubSeq([k \in 1..256 |-> XorN((k - 1) \div 16, (k - 1) % 16, 4)], 1, 256)

XorTable ==
  SubSeq([k \in 1..65536 |->
            LET a == (k - 1) \div 256
                b == (k - 1) % 256
            IN XorNibble[16 * (a % 16) + (b % 16) + 1]
                 + 16 * XorNibble[16 * (a \div 16) + (b \div 16) + 1]],
         1, 65536)

Xor8(a, b) == XorTable[256 * a + b + 1]

\* exclusive or of two 32-bit words
XorW(v, w) == <<Xor8(v[1], w[1]), Xor8(v[2], w[2]), Xor8(v[3], w[3]), Xor8(v[4], w[4])>>

\* w >> 1 on a 32-bit word
Shr1(w) ==
  <<(w[1] \div 2) + 128 * (w[2] % 2), (w[2] \div 2) + 128 * (w[3] % 2),
    (w[3] \div 2) + 128 * (w[4] % 2), w[4] \div 2>>

\* w >> 8 on a 32-bit word
Shr8(w) == <<w[2], w[3], w[4], 0>>

\* ~w on a 32-bit word
NotW(w) == <<255 - w[1], 255 - w[2], 255 - w[3], 255 - w[4]>>

ZeroW == <<0, 0, 0, 0>>

\* the reflected CRC-32 polynomial 0xEDB88320
CrcPoly == <<32, 131, 184, 237>>

(***************************************************************************)
(* CRC32 (acf.cc, crc32_generate_table, crc32_update, crc32).              *)
(***************************************************************************)
RECURSIVE CrcRounds(_, _)
CrcRounds(crc, j) ==
  IF j = 0 THEN crc
  ELSE CrcRounds(IF crc[1] % 2 = 1 THEN XorW(Shr1(crc), CrcPoly) ELSE Shr1(crc),
                 j - 1)

\* entry i + 1 holds crc32_tab[i]
crc32_tab == SubSeq([k \in 1..256 |-> CrcRounds(<<k - 1, 0, 0, 0>>, 8)], 1, 256)

\* crc32_tab[...] ^ (crc >> 8), t being the table entry
CrcStep(t, crc) == <<Xor8(t[1], crc[2]), Xor8(t[2], crc[3]), Xor8(t[3], crc[4]), t[4]>>

RECURSIVE CrcLoop(_, _, _)
CrcLoop(crc, data, i) ==
  IF i > Len(data) \/ crc = <<>> THEN crc
  ELSE CrcLoop(CrcStep(crc32_tab[Xor8(crc[1], data[i]) + 1], crc), data, i + 1)

\* the same loop over data[lo..hi], taken as a first half and then a second
\* half down to stretches of at most CrcStretch bytes
CrcStretch == 64
RECURSIVE CrcRange(_, _, _, _)
CrcRange(crc, data, lo, hi) ==
  IF crc = <<>> \/ lo > hi THEN crc
  ELSE IF hi - lo < CrcStretch THEN CrcLoop(crc, SubSeq(data, lo, hi), 1)
  ELSE CrcRange(CrcRange(crc, data, lo, (lo + hi) \div 2), data,
                (lo + hi) \div 2 + 1, hi)

crc32_update(crc, data) == NotW(CrcRange(NotW(crc), data, 1, Len(data)))

crc32(data) == crc32_update(ZeroW, data)

(***************************************************************************)
(* On-disk layout (include/acf.hh).  Both structs are packed.              *)
(***************************************************************************)
\* sizeof(ACFHeader): 4 + 4 + 8 + 8 + 4 + 4
HeaderSize == 32
\* sizeof(ACFEntryData): 1 + 8 + 8 + 8 + 4 + 4 + 1 + 2
EntrySize == 36
\* ACF_MAGIC 0x39464341 and ACF_VERSION 0x10000900, as they lie on disk
ACF_MAGIC == <<65, 67, 70, 57>>
ACF_VERSION == <<0, 9, 0, 16>>
\* EntryType
TypeFile == 0
TypeDirectory == 1

\* the k low bytes of n, little-endian (a memcpy of an integer field)
RECURSIVE LE(_, _)
LE(n, k) == IF k = 0 THEN <<>> ELSE <<n % 256>> \o LE(n \div 256, k - 1)

\* static_cast<uint16_t>(n)
ToU16(n) == n % 65536

\* a value too large for this model's integers: 2^24 or more
Huge == 256 * 256 * 256

\* an 8-byte (or shorter) little-endian field read back as a number; values of
\* 2^24 and more are all read as Huge
DecLE(bs) ==
  IF \E i \in 4..Len(bs) : bs[i] # 0 THEN Huge
  ELSE (IF Len(bs) >= 1 THEN bs[1] ELSE 0)
       + 256 * (IF Len(bs) >= 2 THEN bs[2] ELSE 0)
       + 65536 * (IF Len(bs) >= 3 THEN bs[3] ELSE 0)

\* struct ACFHeader with its default member initializers
DefaultHeader ==
  [magic |-> ACF_MAGIC, version |-> ACF_VERSION, centralDirOffset |-> 0,
   entryCount |-> 0, centralDirCRC32 |-> ZeroW, reserved |-> ZeroW]

\* the 32 bytes archiveFile.write(&header, sizeof(ACFHeader)) puts on disk
HeaderBytes(h) ==
  h.magic \o h.version \o LE(h.centralDirOffset, 8) \o LE(h.entryCount, 8)
    \o h.centralDirCRC32 \o h.reserved

\* the 36 bytes of one ACFEntryData
EntryBytes(e) ==
  <<e.type>> \o LE(e.originalSize, 8) \o LE(e.compressedSize, 8)
    \o LE(e.dataOffset, 8) \o e.crc32 \o e.filedatetime
    \o <<e.fileattribute>> \o LE(e.pathLength, 2)

\* ACFEntryData e{}: value-initialized
ZeroEntry ==
  [type |-> TypeFile, originalSize |-> 0, compressedSize |-> 0, dataOffset |-> 0,
   crc32 |-> ZeroW, filedatetime |-> ZeroW, fileattribute |-> 0, pathLength |-> 0]

(***************************************************************************)
(* Paths.  A std::filesystem::path is the sequence of its elements, each   *)
(* element a string of bytes; all paths here are relative to the current   *)
(* directory.  A stored in-archive path is one string of bytes.            *)
(***************************************************************************)
ChDot == 46
ChSlash == 92
NameA == <<97>>
NameB == <<98>>
NameAB == <<97, ChDot, 98>>
NameS == <<115>>
NameZ == <<122>>
DotName == <<ChDot>>
DotDot == <<ChDot, ChDot>>

\* the directories and regular files of the source tree:  a\  a\b  a.b
DirNodes == {<<NameA>>}
FileNodes == {<<NameA, NameB>>, <<NameAB>>}
Nodes == DirNodes \cup FileNodes

\* lexicographic order on strings of bytes (std::string operator<)
RECURSIVE BytesLess(_, _)
BytesLess(s, t) ==
  IF t = <<>> THEN FALSE
  ELSE IF s = <<>> THEN TRUE
  ELSE IF s[1] # t[1] THEN s[1] < t[1]
  ELSE BytesLess(Tail(s), Tail(t))

\* fs::path operator<: lexicographic over the elements
RECURSIVE PathLess(_, _)
PathLess(p, q) ==
  IF q = <<>> THEN FALSE
  ELSE IF p = <<>> THEN TRUE
  ELSE IF p[1] # q[1] THEN BytesLess(p[1], q[1])
  ELSE PathLess(Tail(p), Tail(q))

\* std::sort of a vector of distinct paths
RECURSIVE InsertPath(_, _)
InsertPath(p, sorted) ==
  IF sorted = <<>> THEN <<p>>
  ELSE IF PathLess(p, sorted[1]) THEN <<p>> \o sorted
  ELSE <<sorted[1]>> \o InsertPath(p, Tail(sorted))

RECURSIVE SortPaths(_)
SortPaths(ps) ==
  IF ps = <<>> THEN <<>> ELSE InsertPath(ps[1], SortPaths(Tail(ps)))

\* a set of distinct paths as a sorted sequence
RECURSIVE SetToSeq(_)
SetToSeq(S) ==
  IF S = {} THEN <<>>
  ELSE LET p == CHOOSE x \in S : \A y \in S : x = y \/ PathLess(x, y)
       IN <<p>> \o SetToSeq(S \ {p})

\* fs::weakly_canonical, less the current directory: "." elements go
Canon(p) == SelectSeq(p, LAMBDA c : c # DotName)

IsPrefix(p, q) == Len(p) <= Len(q) /\ SubSeq(q, 1, Len(p)) = p

exists(p) == Canon(p) \in Nodes
is_directory(p) == Canon(p) \in DirNodes
is_regular_file(p) == Canon(p) \in FileNodes

\* the paths fs::recursive_directory_iterator(p) yields: p / <what lies below>
DirEntries(p) ==
  {p \o SubSeq(n, Len(Canon(p)) + 1, Len(n)) :
     n \in {m \in Nodes : IsPrefix(Canon(p), m) /\ m # Canon(p)}}

\* path::lexically_relative
RECURSIVE CommonLen(_, _)
CommonLen(p, b) ==
  IF p = <<>> \/ b = <<>> \/ p[1] # b[1] THEN 0
  ELSE 1 + CommonLen(Tail(p), Tail(b))

LexicallyRelative(p, b) ==
  LET k == CommonLen(p, b)
      r == [i \in 1..(Len(b) - k) |-> DotDot] \o SubSeq(p, k + 1, Len(p))
  IN IF r = <<>> THEN <<DotName>> ELSE r

\* fs::relative(p, base)
Relative(p, base) == LexicallyRelative(Canon(p), Canon(base))

\* make_preferred().wstring() through WStringToString: the elements joined by
\* '\' (every character of the model is ASCII, one byte in UTF-8)
RECURSIVE JoinPath(_)
JoinPath(p) ==
  IF p = <<>> THEN <<>>
  ELSE IF Len(p) = 1 THEN p[1]
  ELSE p[1] \o <<ChSlash>> \o JoinPath(Tail(p))

\* fs::path(internalBasePath) / relative(path, basePath), as a string
InternalPath(path, basePath, internalBasePath) ==
  JoinPath(internalBasePath \o Relative(path, basePath))

\* the stored path of a directory: a trailing '\' is added
DirInternalPath(path, basePath, internalBasePath) ==
  LET s == InternalPath(path, basePath, internalBasePath)
  IN IF s # <<>> /\ s[Len(s)] # ChSlash THEN s \o <<ChSlash>> ELSE s

(***************************************************************************)
(* The compressor.  Zstandard is an external library; it is modelled as a  *)
(* framing of the same shape as a Zstandard frame holding one raw block: a *)
(* magic byte, a block header (last-block flag in bit 0, the block size    *)
(* above it) and the block's bytes.                                        *)
(***************************************************************************)
\* first byte of the Zstandard magic number 0xFD2FB528
ZMagic == 40

\* ZSTD_compressStream over the whole input, then ZSTD_endStream
ZCompress(data) == <<ZMagic, 2 * Len(data) + 1>> \o data

(***************************************************************************)
(* Platform metadata, opaque to the engine.                                *)
(***************************************************************************)
\* FileTimeToDosDateTime of a last-write time: 1980-01-01 00:00:00
DosStamp == <<0, 0, 33, 0>>
\* FILE_ATTRIBUTE_DIRECTORY and FILE_ATTRIBUTE_ARCHIVE, cut to 8 bits
AttrDirectory == 16
AttrArchive == 32

(***************************************************************************)
(* ACFArchiver::Create.                                                    *)
(***************************************************************************)
\* one turn of the loop over inputPaths: st = [proc, dirs, files]
EnumInput(st, inputPath) ==
  IF ~exists(inputPath) \/ inputPath \in st.proc THEN st
  ELSE IF is_directory(inputPath) THEN
    LET proc1 == st.proc \cup {inputPath}
        new == DirEntries(inputPath) \ proc1
    IN [proc |-> proc1 \cup new,
        dirs |-> Append(st.dirs, inputPath)
                   \o SetToSeq({e \in new : is_directory(e)}),
        files |-> st.files \o SetToSeq({e \in new : is_regular_file(e)})]
  ELSE IF is_regular_file(inputPath) THEN
    [proc |-> st.proc \cup {inputPath}, dirs |-> st.dirs,
     files |-> Append(st.files, inputPath)]
  ELSE st

RECURSIVE Enumerate(_, _)
Enumerate(st, inputPaths) ==
  IF inputPaths = <<>> THEN st
  ELSE Enumerate(EnumInput(st, inputPaths[1]), Tail(inputPaths))

\* the two sorted work lists
WorkLists(inputPaths) ==
  LET st == Enumerate([proc |-> {}, dirs |-> <<>>, files |-> <<>>], inputPaths)
  IN [dirs |-> SortPaths(st.dirs), files |-> SortPaths(st.files)]

\* the central-directory record of one directory
DirEntry(dirPath, basePath, internalBasePath) ==
  LET internalPath == DirInternalPath(dirPath, basePath, internalBasePath)
  IN [e |-> [ZeroEntry EXCEPT !.type = TypeDirectory,
                              !.filedatetime = DosStamp,
                              !.fileattribute = AttrDirectory,
                              !.pathLength = ToU16(Len(internalPath))],
      path |-> internalPath, src |-> dirPath, read |-> <<>>]

\* fileEntry.originalSize, from the size query made before the file is opened
OriginalSizeOf(sizeSeen, bytesRead) == sizeSeen

\* the central-directory record of one file and the bytes it adds to the body.
\* sizeSeen is what fs::file_size returned, data the bytes the read loop got.
FileEntry(filePath, basePath, internalBasePath, sizeSeen, data, offset) ==
  LET internalPath == InternalPath(filePath, basePath, internalBasePath)
      frame == ZCompress(data)
  IN [e |-> [ZeroEntry EXCEPT !.type = TypeFile,
                              !.originalSize = OriginalSizeOf(sizeSeen, data),
                              !.dataOffset = offset,
                              !.filedatetime = DosStamp,
                              !.fileattribute = AttrArchive,
                              !.pathLength = ToU16(Len(internalPath)),
                              !.crc32 = crc32_update(ZeroW, data),
                              !.compressedSize = Len(frame)],
      path |-> internalPath, src |-> filePath, read |-> data, frame |-> frame]

\* one call of m_CallbackFunc: the file named, its progress (0 or 1) and the
\* general progress as the fraction <<filesProcessed, totalFiles>>
ProgressEvent(file, current, processed, total) ==
  [file |-> file, current |-> current, general |-> <<processed, total>>]

\* "Done."
DoneName == <<68, 111, 110, 101, 46>>
DoneEvent == [file |-> DoneName, current |-> 1, general |-> <<1, 1>>]

\* an offset that is not moved on past the data already written
DataOffsetStale(body) == HeaderSize

\* dataOffset = archiveFile.tellp() with body written after the header
DataOffsetOf(body) == HeaderSize + Len(body)

\* a loop that never passes a file over
CannotOpenNever(f, unreadable) == FALSE

\* std::ifstream inputFile(filePath): the open fails
CannotOpen(f, unreadable) == Canon(f) \in unreadable

\* one turn of the loop over filesToProcess, rec being the record of the
\* file: the 0.0 callback, then either the file is passed over because it
\* cannot be opened or its frame, its entry and the 1.0 callback are added
FileTurn(st, rec, skipped) ==
  LET begun == Append(st.events, ProgressEvent(rec.path, 0, st.processed, st.total))
  IN IF skipped THEN [st EXCEPT !.events = begun]
     ELSE [body |-> st.body \o rec.frame,
           cd |-> Append(st.cd, [e |-> rec.e, path |-> rec.path,
                                 src |-> rec.src, read |-> rec.read]),
           events |-> Append(begun, ProgressEvent(rec.path, 1,
                                                  st.processed + 1, st.total)),
           processed |-> st.processed + 1,
           total |-> st.total]

\* the loop over filesToProcess: st = [body, cd, events, processed, total]
RECURSIVE FileLoop(_, _, _, _, _, _, _)
FileLoop(st, files, basePath, internalBasePath, fsys, sizeSeen, unreadable) ==
  IF files = <<>> THEN st
  ELSE FileLoop(FileTurn(st,
                         FileEntry(files[1], basePath, internalBasePath,
                                   sizeSeen[Canon(files[1])],
                                   fsys[Canon(files[1])], DataOffsetOf(st.body)),
                         CannotOpen(files[1], unreadable)),
                Tail(files), basePath, internalBasePath, fsys, sizeSeen,
                unreadable)

\* centralDirBuffer: every descriptor followed by its path string
RECURSIVE CentralDirBuffer(_)
CentralDirBuffer(cd) ==
  IF cd = <<>> THEN <<>>
  ELSE EntryBytes(cd[1].e) \o cd[1].path \o CentralDirBuffer(Tail(cd))

\* the offset counted from the end of the header instead of the file start
CentralDirOffsetNoHeader(body) == Len(body)

\* header.centralDirOffset = archiveFile.tellp() after the bodies
CentralDirOffsetOf(body) == HeaderSize + Len(body)

\* header.entryCount = centralDirectory.size()
EntryCountOf(cd) == Len(cd)

\* header.centralDirCRC32
CentralDirCrcOf(buffer) == crc32(buffer)

\* the central directory is serialised, the header patched and rewritten
Finish(work, st, buffer) ==
  [cd |-> st.cd,
   header |-> [DefaultHeader EXCEPT
                 !.centralDirOffset = CentralDirOffsetOf(st.body),
                 !.entryCount = EntryCountOf(st.cd),
                 !.centralDirCRC32 = CentralDirCrcOf(buffer)],
   files |-> work.files,
   dirs |-> work.dirs,
   events |-> Append(st.events, DoneEvent),
   buffer |-> buffer,
   body |-> st.body]

\* the directory entries, then the loop over the files
CreateFrom(work, fsys, basePath, internalBasePath, sizeSeen, unreadable) ==
  FileLoop([body |-> <<>>,
            cd |-> [i \in 1..Len(work.dirs) |->
                      DirEntry(work.dirs[i], basePath, internalBasePath)],
            events |-> <<>>, processed |-> 0, total |-> Len(work.files)],
           work.files, basePath, internalBasePath, fsys, sizeSeen, unreadable)

\* the file as written: header, bodies, central directory
Written(out) ==
  [cd |-> out.cd, header |-> out.header, files |-> out.files, dirs |-> out.dirs,
   events |-> out.events,
   bytes |-> HeaderBytes(out.header) \o out.body \o out.buffer]

CreateOver(work, st) == Written(Finish(work, st, CentralDirBuffer(st.cd)))

CreateOn(work, fsys, basePath, internalBasePath, sizeSeen, unreadable) ==
  CreateOver(work, CreateFrom(work, fsys, basePath, internalBasePath, sizeSeen,
                              unreadable))

\* Create as a whole: the central directory it built and the file it wrote
CreateRun(fsys, inputPaths, basePath, internalBasePath, sizeSeen, unreadable) ==
  CreateOn(WorkLists(inputPaths), fsys, basePath, internalBasePath, sizeSeen,
           unreadable)

(***************************************************************************)
(* ACFArchiver::CreateData: an archive of one File entry made from bytes   *)
(* in memory.                                                              *)
(***************************************************************************)
\* the one entry of the archive
DataEntry(internalPath, data, frame) ==
  [e |-> [ZeroEntry EXCEPT !.type = TypeFile,
                           !.originalSize = Len(data),
                           !.compressedSize = Len(frame),
                           !.dataOffset = DataOffsetOf(<<>>),
                           !.crc32 = crc32(data),
                           !.filedatetime = DosStamp,
                           !.fileattribute = AttrArchive,
                           !.pathLength = ToU16(Len(internalPath))],
   path |-> internalPath, src |-> <<>>, read |-> data]

CreateDataOver(rec, frame, buffer) ==
  [cd |-> <<rec>>,
   header |-> [DefaultHeader EXCEPT
                 !.centralDirOffset = CentralDirOffsetOf(frame),
                 !.entryCount = 1,
                 !.centralDirCRC32 = CentralDirCrcOf(buffer)],
   body |-> frame, buffer |-> buffer, files |-> <<>>, dirs |-> <<>>,
   events |-> <<>>]

CreateDataOn(rec, frame) ==
  Written(CreateDataOver(rec, frame, CentralDirBuffer(<<rec>>)))

CreateDataWith(internalPath, data, frame) ==
  CreateDataOn(DataEntry(internalPath, data, frame), frame)

CreateDataRun(internalPath, data) ==
  CreateDataWith(internalPath, data, ZCompress(data))

(***************************************************************************)
(* The reader's view of a file.  A std::ifstream read past the end of the  *)
(* file stores what there is and sets failbit; a stream with failbit set   *)
(* ignores every later seekg and read.                                     *)
(***************************************************************************)
Min(a, b) == IF a < b THEN a ELSE b

\* archiveFile.read(&header, sizeof(ACFHeader)) into a default-constructed
\* header: the bytes the file has overwrite the defaults, the rest stay
ReadHeader(bytes) ==
  LET n == Min(HeaderSize, Len(bytes))
      raw == SubSeq(bytes, 1, n) \o SubSeq(HeaderBytes(DefaultHeader), n + 1, HeaderSize)
  IN [magic |-> SubSeq(raw, 1, 4),
      version |-> SubSeq(raw, 5, 8),
      centralDirOffset |-> DecLE(SubSeq(raw, 9, 16)),
      entryCount |-> DecLE(SubSeq(raw, 17, 24)),
      centralDirCRC32 |-> SubSeq(raw, 25, 28),
      reserved |-> SubSeq(raw, 29, 32),
      failed |-> Len(bytes) < HeaderSize]

\* memcpy(&entryData, p, sizeof(ACFEntryData)) from 36 bytes
ParseEntry(b) ==
  [type |-> b[1],
   originalSize |-> DecLE(SubSeq(b, 2, 9)),
   compressedSize |-> DecLE(SubSeq(b, 10, 17)),
   dataOffset |-> DecLE(SubSeq(b, 18, 25)),
   crc32 |-> SubSeq(b, 26, 29),
   filedatetime |-> SubSeq(b, 30, 33),
   fileattribute |-> b[34],
   pathLength |-> b[35] + 256 * b[36]]

\* one less, for a loop counter (a count of 2^24 or more stays that large)
Pred(n) == IF n = Huge THEN Huge ELSE n - 1

(***************************************************************************)
(* ACFArchiver::List.  Results: err is "Ok" or the kind of the exception.  *)
(*   UnknownFormat  "Not a valid ACF archive"                              *)
(*   BadArchive     "Central directory CRC32 mismatch"                     *)
(*   AllocFailure   std::length_error or std::bad_alloc from a container   *)
(***************************************************************************)
\* the walk over centralDirBuffer: stops early (break) when a descriptor or
\* its path would run past the end of the buffer
RECURSIVE WalkBuffer(_, _, _)
WalkBuffer(buffer, pos, count) ==
  IF count = 0 THEN <<>>
  ELSE IF pos + EntrySize > Len(buffer) THEN <<>>
  ELSE
    LET e == ParseEntry(SubSeq(buffer, pos + 1, pos + EntrySize))
        q == pos + EntrySize
    IN IF q + e.pathLength > Len(buffer) THEN <<>>
       ELSE <<[e |-> e, path |-> SubSeq(buffer, q + 1, q + e.pathLength)]>>
              \o WalkBuffer(buffer, q + e.pathLength, Pred(count))

\* List without the central-directory CRC check
CrcUnchecked(buffer, header) == TRUE

\* the central-directory CRC check of List
CrcMatches(buffer, header) == crc32(buffer) = header.centralDirCRC32

\* allocOk: whether an allocation of 2^24 or more elements succeeds
ListRun(bytes, allocOk) ==
  LET h == ReadHeader(bytes)
      buffer == IF h.failed THEN <<>>
                ELSE SubSeq(bytes, h.centralDirOffset + 1, Len(bytes))
  IN IF h.magic # ACF_MAGIC THEN [err |-> "UnknownFormat", list |-> <<>>]
     \* cdSize = size_t(tellg()) - centralDirOffset wraps below zero
     ELSE IF ~h.failed /\ h.centralDirOffset > Len(bytes)
       THEN [err |-> "AllocFailure", list |-> <<>>]
     ELSE IF ~CrcMatches(buffer, h) THEN [err |-> "BadArchive", list |-> <<>>]
     \* fileList.reserve(header.entryCount)
     ELSE IF h.entryCount = Huge /\ ~allocOk
       THEN [err |-> "AllocFailure", list |-> <<>>]
     ELSE [err |-> "Ok", list |-> WalkBuffer(buffer, 0, h.entryCount)]

(***************************************************************************)
(* The decompressor: ZSTD_decompressStream fed the whole input.  It gives  *)
(* out a block once all of it has arrived, starts a new frame after a last *)
(* block, and reports an error only for a byte that cannot start a frame;  *)
(* input that ends in the middle of a frame is no error.                   *)
(***************************************************************************)
RECURSIVE ZBlock(_, _, _)
RECURSIVE ZFrame(_, _, _)
\* at position i a block header is due
ZBlock(input, i, out) ==
  IF i > Len(input) THEN [err |-> FALSE, out |-> out]
  ELSE
    LET size == input[i] \div 2
        last == input[i] % 2 = 1
    IN IF i + size > Len(input) THEN [err |-> FALSE, out |-> out]
       ELSE IF last THEN ZFrame(input, i + size + 1, out \o SubSeq(input, i + 1, i + size))
       ELSE ZBlock(input, i + size + 1, out \o SubSeq(input, i + 1, i + size))

\* at position i a frame is due
ZFrame(input, i, out) ==
  IF i > Len(input) THEN [err |-> FALSE, out |-> out]
  ELSE IF input[i] # ZMagic THEN [err |-> TRUE, out |-> out]
  ELSE ZBlock(input, i + 1, out)

ZDecompress(input) == ZFrame(input, 1, <<>>)

(***************************************************************************)
(* ACFArchiver::ExtractData.  Further results:                             *)
(*   NotFound          "File not found in archive"                         *)
(*   InvalidOperation  "Cannot extract data from a directory entry"        *)
(*   CompressorError   "ZSTD_decompressStream error"                       *)
(*   CRCMismatch       "CRC32 mismatch for file"                           *)
(* The requested name is a non-empty string without NUL bytes, so a path   *)
(* buffer that a failed read left (partly) zero-filled never equals it.    *)
(***************************************************************************)
\* the scan of the central directory, read from the file itself: the first
\* entry whose path equals the name, or none
RECURSIVE ScanFor(_, _, _, _)
ScanFor(bytes, pos, count, archFileName) ==
  IF count = 0 THEN [found |-> FALSE]
  ELSE IF pos + EntrySize > Len(bytes) THEN [found |-> FALSE]
  ELSE
    LET e == ParseEntry(SubSeq(bytes, pos + 1, pos + EntrySize))
        q == pos + EntrySize
    IN IF q + e.pathLength > Len(bytes) THEN [found |-> FALSE]
       ELSE IF SubSeq(bytes, q + 1, q + e.pathLength) = archFileName
         THEN [found |-> TRUE, e |-> e]
       ELSE ScanFor(bytes, q + e.pathLength, Pred(count), archFileName)

\* the longest run of zero bytes any decoder state can need before it is
\* settled: one whole block and its header
ZeroPad == 128 + 2

\* the read loop without the seek to dataOffset: it reads from the start
FedBytesNoSeek(bytes, e) ==
  SubSeq(bytes, 1, Min(Len(bytes), e.compressedSize))

\* what the read loop hands the decompressor: compressedSize bytes, those
\* past the end of the file being the zeros the input buffer started with
FedBytes(bytes, e) ==
  LET have == IF e.dataOffset >= Len(bytes) THEN <<>>
              ELSE SubSeq(bytes, e.dataOffset + 1,
                          Min(Len(bytes), e.dataOffset + e.compressedSize))
      pad == Min(e.compressedSize - Len(have), ZeroPad)
  IN have \o [i \in 1..pad |-> 0]

\* the lookup without the check of the entry type
IsExtractableAny(e) == TRUE

\* the check a found entry must pass before its data is read
IsExtractable(e) == e.type = TypeFile

\* extraction without the CRC check on the decompressed bytes
DataCrcUnchecked(data, e) == TRUE

\* the CRC check on the decompressed bytes
DataCrcMatches(data, e) == crc32(data) = e.crc32

ExtractDataRun(bytes, archFileName, allocOk) ==
  LET h == ReadHeader(bytes)
      hit == IF h.failed THEN [found |-> FALSE]
             ELSE ScanFor(bytes, h.centralDirOffset, h.entryCount, archFileName)
  IN IF h.magic # ACF_MAGIC THEN [err |-> "UnknownFormat", data |-> <<>>]
     ELSE IF ~hit.found THEN [err |-> "NotFound", data |-> <<>>]
     ELSE IF ~IsExtractable(hit.e) THEN [err |-> "InvalidOperation", data |-> <<>>]
     \* decompressedData.reserve(targetEntry.originalSize)
     ELSE IF hit.e.originalSize = Huge /\ ~allocOk
       THEN [err |-> "AllocFailure", data |-> <<>>]
     ELSE
       LET z == ZDecompress(FedBytes(bytes, hit.e))
       IN IF z.err THEN [err |-> "CompressorError", data |-> <<>>]
          ELSE IF ~DataCrcMatches(z.out, hit.e) THEN [err |-> "CRCMismatch", data |-> <<>>]
          ELSE [err |-> "Ok", data |-> z.out]

(***************************************************************************)
(* ACFArchiver::ExtractAll.  The output directory is the function from the *)
(* paths written to their contents, and the set of directories made.       *)
(* st.unwritable holds the output paths whose std::ofstream does not open; *)
(* st.processed the paths of the entries the loop went through to its end; *)
(* st.events the callbacks made.                                           *)
(***************************************************************************)
\* std::ofstream outputFile(fullPath); if (outputFile) outputFile.write(...)
WriteOutcome(st, path, data) ==
  IF path \in st.unwritable THEN st
  ELSE [st EXCEPT !.files = (path :> data) @@ st.files]

\* the end of one turn of the loop: entriesProcessed++ and the 1.0 callback
TurnDone(st, path) ==
  [st EXCEPT !.processed = Append(st.processed, path),
             !.events = Append(st.events,
                               ProgressEvent(path, 1, Len(st.processed) + 1, st.total))]

RECURSIVE ExtractLoop(_, _, _, _)
ExtractLoop(bytes, entries, allocOk, st) ==
  IF entries = <<>> \/ st.err # "Ok" THEN st
  ELSE
    LET entry == entries[1].e
        path == entries[1].path
        begun == [st EXCEPT !.events =
                    Append(st.events,
                           ProgressEvent(path, 0, Len(st.processed), st.total))]
    IN IF entry.type = TypeDirectory
         THEN ExtractLoop(bytes, Tail(entries), allocOk,
                          TurnDone([begun EXCEPT !.dirs = st.dirs \cup {path}], path))
       ELSE IF entry.type = TypeFile
         THEN LET r == ExtractDataRun(bytes, path, allocOk)
              IN IF r.err # "Ok" THEN [begun EXCEPT !.err = r.err]
                 ELSE ExtractLoop(bytes, Tail(entries), allocOk,
                                  TurnDone(WriteOutcome(begun, path, r.data), path))
       ELSE ExtractLoop(bytes, Tail(entries), allocOk, TurnDone(begun, path))

\* the state the loop starts from
LoopStart(unwritable, total) ==
  [err |-> "Ok", files |-> <<>>, dirs |-> {}, unwritable |-> unwritable,
   processed |-> <<>>, events |-> <<>>, total |-> total]

\* the "Done." callback after the loop, when no exception ended it
Finished(st) ==
  IF st.err = "Ok" THEN [st EXCEPT !.events = Append(st.events, DoneEvent)] ELSE st

ExtractAllRun(bytes, allocOk, unwritable) ==
  LET l == ListRun(bytes, allocOk)
  IN IF l.err # "Ok" THEN [LoopStart(unwritable, 0) EXCEPT !.err = l.err]
     ELSE Finished(ExtractLoop(bytes, l.list, allocOk,
                               LoopStart(unwritable, Len(l.list))))

(***************************************************************************)
(* ACFArchiver::Extract: the same loop over the entries whose path is in   *)
(* the set of names asked for, in the order List returned them.            *)
(***************************************************************************)
\* a selection that looks at the first name only
IsSelectedFirst(path, archFileNames) ==
  archFileNames # <<>> /\ archFileNames[1] = path

\* filesToExtractSet.count(pair.second)
IsSelected(path, archFileNames) ==
  \E i \in 1..Len(archFileNames) : archFileNames[i] = path

RECURSIVE EntriesToExtract(_, _)
EntriesToExtract(allEntries, archFileNames) ==
  IF allEntries = <<>> THEN <<>>
  ELSE (IF IsSelected(allEntries[1].path, archFileNames)
          THEN <<allEntries[1]>> ELSE <<>>)
         \o EntriesToExtract(Tail(allEntries), archFileNames)

ExtractRun(bytes, archFileNames, allocOk, unwritable) ==
  LET l == ListRun(bytes, allocOk)
      sel == EntriesToExtract(l.list, archFileNames)
  IN IF l.err # "Ok" THEN [LoopStart(unwritable, 0) EXCEPT !.err = l.err]
     ELSE Finished(ExtractLoop(bytes, sel, allocOk,
                               LoopStart(unwritable, Len(sel))))

(***************************************************************************)
(* The state: a source tree, the archive file, and the outcome of the last *)
(* operation run on it.                                                    *)
(***************************************************************************)
VARIABLES
  fs,       \* the content of every regular file of the source tree
  phase,    \* "init" before Create has run, "created" after
  archive,  \* the bytes of the archive file
  made,     \* what Create was given and what it built
  altered,  \* how the archive file was changed after Create, if at all
  res,      \* the reader operation run on the archive and its outcome
  g_OpenArchives,  \* the plugin's registry: handle -> ArchiveState
  g_NextHandle,    \* the plugin's handle counter
  ret,      \* the plugin call that returned last and what it returned
  hist,     \* what the plugin's caller has seen: handles returned and closed
  pc        \* where each thread is inside a plugin call

archiverVars == <<fs, phase, archive, made, altered, res>>
pluginVars == <<g_OpenArchives, g_NextHandle, ret, hist, pc>>
vars == <<fs, phase, archive, made, altered, res,
          g_OpenArchives, g_NextHandle, ret, hist, pc>>

\* the threads that call into the plugin
Threads == {1, 2}
NoRet == [op |-> "none"]
Idle == [at |-> "idle"]

\* the content of a file of n bytes; each file has bytes of its own
ContentOf(node, n) == [i \in 1..n |-> (IF node = <<NameAB>> THEN 72 ELSE 104) + i]

AllFs == {[node \in FileNodes |-> ContentOf(node, len[node])] :
            len \in [FileNodes -> 0..MaxLen]}

NoRes == [op |-> "none"]
NoChange == [kind |-> "none"]

InitWith(trees) ==
  /\ fs \in trees
  /\ phase = "init"
  /\ archive = <<>>
  /\ made = [cd |-> <<>>]
  /\ altered = NoChange
  /\ res = NoRes
  /\ g_OpenArchives = <<>>
  /\ g_NextHandle = 0
  /\ ret = NoRet
  /\ hist = [returned |-> {}, closed |-> {}, calls |-> <<>>]
  /\ pc = [t \in Threads |-> Idle]

\* the spellings an input path may have
InputChoices ==
  {<<NameA>>, <<NameA, NameB>>, <<NameAB>>, <<DotName, NameAB>>, <<NameZ>>}

RECURSIVE SeqsUpTo(_, _)
SeqsUpTo(S, n) ==
  IF n = 0 THEN {<<>>}
  ELSE LET shorter == SeqsUpTo(S, n - 1)
       IN shorter \cup {Append(q, x) : q \in {t \in shorter : Len(t) = n - 1}, x \in S}

InputLists == SeqsUpTo(InputChoices, MaxInputs)

\* (basePath, internalBasePath) pairs
BaseChoices == {<<(<<DotName>>), (<<>>)>>, <<(<<DotName>>), (<<NameS>>)>>,
                <<(<<NameA>>), (<<>>)>>}

\* what the file system does during one Create: nothing, or one file that
\* cannot be opened, or one file that is a byte longer at the size query
\* than when it is read
Environments ==
  {[unreadable |-> {}, shrunk |-> {}]}
    \cup {[unreadable |-> {f}, shrunk |-> {}] : f \in FileNodes}
    \cup {[unreadable |-> {}, shrunk |-> {f}] : f \in FileNodes}

SizeSeen(fsys, env) ==
  [f \in FileNodes |-> Len(fsys[f]) + (IF f \in env.shrunk THEN 1 ELSE 0)]

\* what a run leaves behind: the archive file and the record of the run
Leave(run, by, inputPaths, basePath, internalBasePath, env) ==
  /\ archive' = run.bytes
  /\ made' = [cd |-> run.cd, header |-> run.header, files |-> run.files,
              dirs |-> run.dirs, events |-> run.events, by |-> by,
              inputPaths |-> inputPaths, basePath |-> basePath,
              internalBasePath |-> internalBasePath, env |-> env]

Create(inputPaths, basePath, internalBasePath, env) ==
  /\ phase = "init"
  /\ Leave(CreateRun(fs, inputPaths, basePath, internalBasePath,
                     SizeSeen(fs, env), env.unreadable),
           "Create", inputPaths, basePath, internalBasePath, env)
  /\ phase' = "created"
  /\ UNCHANGED <<fs, altered, res>>
  /\ UNCHANGED pluginVars

CreateData(internalPath, data) ==
  /\ phase = "init"
  /\ Leave(CreateDataRun(internalPath, data), "CreateData", <<>>, <<DotName>>,
           <<>>, [unreadable |-> {}, shrunk |-> {}])
  /\ phase' = "created"
  /\ UNCHANGED <<fs, altered, res>>
  /\ UNCHANGED pluginVars

\* one byte of the archive file is changed
AlterByte(pos, delta) ==
  /\ phase = "created" /\ altered = NoChange /\ res = NoRes
  /\ pos \in 1..Len(archive)
  /\ archive' = [archive EXCEPT ![pos] = (archive[pos] + delta) % 256]
  /\ altered' = [kind |-> "byte", pos |-> pos]
  /\ UNCHANGED <<fs, phase, made, res>>
  /\ UNCHANGED pluginVars

\* the archive file is cut to a shorter length
Truncate(len) ==
  /\ phase = "created" /\ altered = NoChange /\ res = NoRes
  /\ len \in 0..(Len(archive) - 1)
  /\ archive' = SubSeq(archive, 1, len)
  /\ altered' = [kind |-> "trunc", pos |-> len]
  /\ UNCHANGED <<fs, phase, made, res>>
  /\ UNCHANGED pluginVars

List(allocOk) ==
  /\ phase = "created" /\ res = NoRes
  /\ LET r == ListRun(archive, allocOk)
     IN res' = [op |-> "List", err |-> r.err, list |-> r.list]
  /\ UNCHANGED <<fs, phase, archive, made, altered>>
  /\ UNCHANGED pluginVars

Extract(archFileNames, allocOk, unwritable) ==
  /\ phase = "created" /\ res = NoRes
  /\ LET r == ExtractRun(archive, archFileNames, allocOk, unwritable)
     IN res' = [op |-> "Extract", names |-> archFileNames, err |-> r.err,
                files |-> r.files, dirs |-> r.dirs, unwritable |-> unwritable,
                processed |-> r.processed, events |-> r.events]
  /\ UNCHANGED <<fs, phase, archive, made, altered>>
  /\ UNCHANGED pluginVars

\* the names asked for: every stored path, a name no entry has, and a
\* directory's path without its trailing '\'
NameChoices == {made.cd[i].path : i \in 1..Len(made.cd)} \cup {NameZ, NameA}

ExtractData(archFileName, allocOk) ==
  /\ phase = "created" /\ res = NoRes
  /\ LET r == ExtractDataRun(archive, archFileName, allocOk)
     IN res' = [op |-> "ExtractData", name |-> archFileName, err |-> r.err,
                data |-> r.data]
  /\ UNCHANGED <<fs, phase, archive, made, altered>>
  /\ UNCHANGED pluginVars

ExtractAll(allocOk, unwritable) ==
  /\ phase = "created" /\ res = NoRes
  /\ LET r == ExtractAllRun(archive, allocOk, unwritable)
     IN res' = [op |-> "ExtractAll", err |-> r.err, files |-> r.files,
                dirs |-> r.dirs, unwritable |-> unwritable,
                processed |-> r.processed, events |-> r.events]
  /\ UNCHANGED <<fs, phase, archive, made, altered>>
  /\ UNCHANGED pluginVars

QuietEnv == [unreadable |-> {}, shrunk |-> {}]

\* every base with a quiet file system, and every environment with the base
\* and prefix the command-line tool passes (".", "")
WriteSettings ==
  {[basePath |-> b[1], internalBasePath |-> b[2], env |-> QuietEnv] : b \in BaseChoices}
    \cup {[basePath |-> <<DotName>>, internalBasePath |-> <<>>, env |-> env] :
            env \in Environments}

\* Only a changed byte can make a size field read as 2^24 or more, so only
\* then does the outcome of a large allocation matter.
AllocOutcomes == IF altered = NoChange THEN {TRUE} ELSE BOOLEAN

\* what CreateData is given: a path and the bytes of the file
DataPaths == {NameAB, NameZ}
DataChoices == {ContentOf(<<NameAB>>, n) : n \in 0..MaxLen}

\* the archive writer under every input list, base and environment
NextWrite ==
  \/ \E inputPaths \in InputLists, w \in WriteSettings :
       Create(inputPaths, w.basePath, w.internalBasePath, w.env)
  \/ \E allocOk \in AllocOutcomes : ExtractAll(allocOk, {})
  \/ \E allocOk \in AllocOutcomes : List(allocOk)
  \/ \E internalPath \in DataPaths, data \in DataChoices :
       CreateData(internalPath, data)

SpecWrite == InitWith(AllFs) /\ [][NextWrite]_vars

\* the inputs of the command-line tool: a few lists, base ".", no prefix
ReadInputLists ==
  {<<>>, <<(<<NameAB>>)>>, <<(<<NameA>>), (<<NameAB>>)>>,
   <<(<<NameAB>>), (<<DotName, NameAB>>)>>}

AlterDeltas == {1, 255}

\* the reader on archives that were changed after they were written
Next ==
  \/ \E inputPaths \in ReadInputLists :
       Create(inputPaths, <<DotName>>, <<>>, QuietEnv)
  \/ \E pos \in 1..Len(archive), delta \in AlterDeltas : AlterByte(pos, delta)
  \/ \E len \in 0..Len(archive) : Truncate(len)
  \/ \E allocOk \in AllocOutcomes : List(allocOk)
  \/ \E n \in NameChoices, allocOk \in AllocOutcomes : ExtractData(n, allocOk)
  \/ \E allocOk \in AllocOutcomes : ExtractAll(allocOk, {})

\* source trees for the reader: a.b is full length, a\b empty or full length
ReadFs == {t \in AllFs : Len(t[<<NameAB>>]) = MaxLen /\ Len(t[<<NameA, NameB>>]) \in {0, MaxLen}}

Spec == InitWith(ReadFs) /\ [][Next]_vars

\* selective extraction and output files that cannot be written
MaxNames == 2
NameLists == SeqsUpTo(NameChoices, MaxNames)

\* the output directory: every file can be written, or one cannot
OutputFailures ==
  {{}} \cup {{made.cd[i].path} : i \in {j \in 1..Len(made.cd) : made.cd[j].e.type = TypeFile}}

\* the positions of the compressed data in the archive file
BodyPositions ==
  {p \in 1..Len(archive) :
     p > HeaderSize /\ p <= ReadHeader(archive).centralDirOffset}

NextOut ==
  \/ \E inputPaths \in ReadInputLists :
       Create(inputPaths, <<DotName>>, <<>>, QuietEnv)
  \/ \E pos \in BodyPositions : AlterByte(pos, 1)
  \/ \E names \in NameLists, unwritable \in OutputFailures :
       Extract(names, TRUE, unwritable)
  \/ \E unwritable \in OutputFailures : ExtractAll(TRUE, unwritable)

SpecOut == InitWith(ReadFs) /\ [][NextOut]_vars

\* paths at the limit of the 16-bit pathLength field
PathLimit == 65535
Fill(n) == SubSeq([i \in 1..n |-> 112], 1, n)
AtLimit == Fill(PathLimit)
PastLimit == Fill(PathLimit + 1)
\* prefixes that bring the stored path of a.b to the limit and one past it
PrefixAtLimit == <<Fill(PathLimit - 4)>>
PrefixPastLimit == <<Fill(PathLimit - 3)>>

NextLong ==
  \/ \E internalPath \in {AtLimit, PastLimit} : CreateData(internalPath, <<>>)
  \/ \E internalPath \in DataPaths, data \in DataChoices :
       CreateData(internalPath, data)
  \/ \E prefix \in {PrefixAtLimit, PrefixPastLimit} :
       Create(<<(<<NameAB>>)>>, <<DotName>>, prefix, QuietEnv)
  \/ \E inputPaths \in ReadInputLists, b \in BaseChoices :
       Create(inputPaths, b[1], b[2], QuietEnv)
  \/ List(TRUE)
  \/ \E n \in NameChoices : ExtractData(n, TRUE)

SpecLong == InitWith(ReadFs) /\ [][NextLong]_vars

(***************************************************************************)
(* The Total Commander plugin (acfwcx.cc).  g_OpenArchives maps a handle   *)
(* to its ArchiveState, of which entries and currentEntryIndex are kept;   *)
(* ret is what the last call returned; hist records, for the properties,   *)
(* the handles given out, those closed and the ReadHeaderExW calls made on *)
(* each handle.                                                            *)
(***************************************************************************)
\* wcxhead.h
E_END_ARCHIVE == 10
E_BAD_ARCHIVE == 13
E_UNKNOWN_FORMAT == 14
E_EOPEN == 15
E_ECREATE == 16
E_EWRITE == 19
E_NOT_SUPPORTED == 24
PK_SKIP == 0
PK_TEST == 1
PK_EXTRACT == 2

\* (HANDLE)-1
InvalidHandle == 0 - 1

\* the catch block of OpenArchiveW: what() is searched for "Not a valid" and
\* for "corrupted"
OpenResultOf(err) ==
  IF err = "UnknownFormat" THEN E_UNKNOWN_FORMAT
  ELSE IF err = "BadArchive" THEN E_BAD_ARCHIVE
  ELSE E_EOPEN

\* archiver->List(archivePath): no file can be opened before one is written
ListFile(allocOk) ==
  IF phase = "init" THEN [err |-> "OpenFailed", list |-> <<>>]
  ELSE ListRun(archive, allocOk)

\* std::make_unique<ArchiveState>() with the entries List returned
NewState(list) == [entries |-> list, currentEntryIndex |-> 0 - 1]

\* g_OpenArchives.find(hArcData) != g_OpenArchives.end()
Registered(h) == h \in DOMAIN g_OpenArchives

\* g_OpenArchives[newHandle] = std::move(state)
Inserted(map, h, state) == (h :> state) @@ map

\* an erase that removes nothing
ErasedNothing(map, h) == map

\* g_OpenArchives.erase(hArcData)
Erased(map, h) == [k \in (DOMAIN map) \ {h} |-> map[k]]

\* an index that moves on by two
AdvanceTwice(i) == i + 2

\* state->currentEntryIndex++
Advance(i) == i + 1

\* the fields ReadHeaderExW fills in
HeaderOf(r) ==
  [FileName |-> r.path, UnpSize |-> r.e.originalSize,
   PackSize |-> r.e.compressedSize, FileCRC |-> r.e.crc32,
   FileTime |-> r.e.filedatetime, FileAttr |-> r.e.fileattribute]

\* the number of OpenArchiveW calls that succeed, and of ReadHeaderExW calls
\* made on a handle after the last entry
MaxOpens == 2
MaxPast == 2

Handles == 1..MaxOpens

OpenFailed(err) ==
  /\ ret' = [op |-> "OpenArchiveW", handle |-> InvalidHandle,
             OpenResult |-> OpenResultOf(err), before |-> g_OpenArchives]
  /\ UNCHANGED <<g_OpenArchives, g_NextHandle, hist>>

OpenDone(h, list) ==
  /\ g_NextHandle' = h
  /\ g_OpenArchives' = Inserted(g_OpenArchives, h, NewState(list))
  /\ ret' = [op |-> "OpenArchiveW", handle |-> h, OpenResult |-> 0,
             before |-> g_OpenArchives, given |-> hist.returned]
  /\ hist' = [hist EXCEPT !.returned = @ \cup {h}, !.calls = (h :> 0) @@ @]

OpenWith(l) ==
  IF l.err # "Ok" THEN OpenFailed(l.err)
  ELSE OpenDone(g_NextHandle + 1, l.list)

OpenArchiveW(allocOk) ==
  /\ \A t \in Threads : pc[t] = Idle
  /\ g_NextHandle < MaxOpens
  /\ OpenWith(ListFile(allocOk))
  /\ UNCHANGED <<archiverVars, pc>>

ReadHeaderAt(h, state, i) ==
  /\ g_OpenArchives' = [g_OpenArchives EXCEPT ![h].currentEntryIndex = i]
  /\ hist' = [hist EXCEPT !.calls[h] = @ + 1]
  /\ ret' = IF i >= Len(state.entries)
              THEN [op |-> "ReadHeaderExW", handle |-> h, code |-> E_END_ARCHIVE,
                    wasClosed |-> FALSE]
              ELSE [op |-> "ReadHeaderExW", handle |-> h, code |-> 0,
                    wasClosed |-> FALSE,
                    HeaderData |-> HeaderOf(state.entries[i + 1])]

ReadHeaderExW(h) ==
  /\ \A t \in Threads : pc[t] = Idle
  /\ IF ~Registered(h)
       THEN /\ ret' = [op |-> "ReadHeaderExW", handle |-> h, code |-> E_BAD_ARCHIVE,
                       wasClosed |-> h \in hist.closed]
            /\ UNCHANGED <<g_OpenArchives, hist>>
       ELSE /\ hist.calls[h] < Len(g_OpenArchives[h].entries) + MaxPast
            /\ ReadHeaderAt(h, g_OpenArchives[h],
                            Advance(g_OpenArchives[h].currentEntryIndex))
  /\ UNCHANGED <<archiverVars, g_NextHandle, pc>>

\* the try block of ProcessFileW for the entry current
ProcessEntry(current, allocOk, unwritable) ==
  IF current.e.type = TypeDirectory
    THEN [code |-> 0, entry |-> current, dir |-> current.path]
  ELSE IF ExtractDataRun(archive, current.path, allocOk).err # "Ok"
    THEN [code |-> E_EWRITE, entry |-> current]
  ELSE IF current.path \in unwritable
    THEN [code |-> E_ECREATE, entry |-> current]
  ELSE [code |-> 0, entry |-> current, file |-> current.path,
        data |-> ExtractDataRun(archive, current.path, allocOk).data]

ProcessCurrent(state, Operation, allocOk, unwritable) ==
  IF state.currentEntryIndex < 0
       \/ state.currentEntryIndex >= Len(state.entries)
    THEN [code |-> E_BAD_ARCHIVE]
  ELSE IF Operation = PK_SKIP
    THEN [code |-> 0, entry |-> state.entries[state.currentEntryIndex + 1]]
  ELSE IF Operation # PK_EXTRACT
    THEN [code |-> E_NOT_SUPPORTED,
          entry |-> state.entries[state.currentEntryIndex + 1]]
  ELSE ProcessEntry(state.entries[state.currentEntryIndex + 1], allocOk,
                    unwritable)

ProcessFileW(h, Operation, allocOk, unwritable) ==
  /\ \A t \in Threads : pc[t] = Idle
  /\ ret' = [op |-> "ProcessFileW", handle |-> h, Operation |-> Operation,
             wasClosed |-> h \in hist.closed,
             out |-> IF ~Registered(h) THEN [code |-> E_BAD_ARCHIVE]
                     ELSE ProcessCurrent(g_OpenArchives[h], Operation, allocOk,
                                         unwritable)]
  /\ UNCHANGED <<archiverVars, g_OpenArchives, g_NextHandle, hist, pc>>

CloseArchive(h) ==
  /\ \A t \in Threads : pc[t] = Idle
  /\ IF ~Registered(h)
       THEN /\ ret' = [op |-> "CloseArchive", handle |-> h, code |-> E_BAD_ARCHIVE,
                       wasClosed |-> h \in hist.closed]
            /\ UNCHANGED <<g_OpenArchives, hist>>
       ELSE /\ g_OpenArchives' = Erased(g_OpenArchives, h)
            /\ ret' = [op |-> "CloseArchive", handle |-> h, code |-> 0,
                       wasClosed |-> FALSE]
            /\ hist' = [hist EXCEPT !.closed = @ \cup {h}]
  /\ UNCHANGED <<archiverVars, g_NextHandle, pc>>

\* the archives the plugin is given: written by Create, and then possibly
\* changed in the magic or in the last byte before the first OpenArchiveW
ShimInputLists ==
  {<<>>, <<(<<NameAB>>)>>, <<(<<NameA>>)>>, <<(<<NameAB>>), (<<DotName, NameAB>>)>>}
ShimPositions == {1, Len(archive)}
Operations == {PK_SKIP, PK_TEST, PK_EXTRACT}

NextShim ==
  \/ \E inputPaths \in ShimInputLists :
       Create(inputPaths, <<DotName>>, <<>>, QuietEnv)
  \/ \E pos \in ShimPositions :
       ret = NoRet /\ AlterByte(pos, 1)
  \/ OpenArchiveW(TRUE)
  \/ \E h \in Handles : ReadHeaderExW(h)
  \/ \E h \in Handles, Operation \in Operations, unwritable \in OutputFailures :
       ProcessFileW(h, Operation, TRUE, unwritable)
  \/ \E h \in Handles : CloseArchive(h)

SpecShim == InitWith(ReadFs) /\ [][NextShim]_vars

(***************************************************************************)
(* OpenArchiveW and CloseArchive called from several threads.  The code    *)
(* takes no lock: InterlockedIncrement is the one atomic step, and each    *)
(* operation on the std::map (operator[], find, erase) lasts from Enter to *)
(* Leave.  pc[t] is where thread t stands: the operation on the map it is  *)
(* about to make or is inside of.  Two operations on the map that overlap, *)
(* one of them a write, are a data race: what such an operation leaves in  *)
(* the map, or reads from it, is then any of RaceOutcomes.                 *)
(***************************************************************************)
At(t, at) == pc[t].at = at
Inside(t) == pc[t] # Idle /\ pc[t].inside
Writes(t) == pc[t].at \in {"insert", "erase"}
Conflict(t, u) == Inside(u) /\ (Writes(t) \/ Writes(u))

\* the operation takes effect, or it is lost
RaceOutcomes == {"done", "lost"}
Outcomes(t) == IF pc[t] # Idle /\ pc[t].raced THEN RaceOutcomes ELSE {"done"}

\* OpenArchiveW up to InterlockedIncrement: List, then the handle is drawn
ThreadOpenWith(t, l) ==
  IF l.err # "Ok" THEN OpenFailed(l.err) /\ UNCHANGED pc
  ELSE /\ g_NextHandle' = g_NextHandle + 1
       /\ pc' = [pc EXCEPT ![t] = [at |-> "insert", h |-> g_NextHandle + 1,
                                   list |-> l.list, inside |-> FALSE,
                                   raced |-> FALSE]]
       /\ UNCHANGED <<g_OpenArchives, ret, hist>>

ThreadOpen(t, allocOk) ==
  /\ pc[t] = Idle
  /\ g_NextHandle < MaxOpens
  /\ ThreadOpenWith(t, ListFile(allocOk))
  /\ UNCHANGED archiverVars

\* CloseArchive is called: the find is due
ThreadClose(t, h) ==
  /\ pc[t] = Idle
  /\ pc' = [pc EXCEPT ![t] = [at |-> "find", h |-> h, inside |-> FALSE,
                              raced |-> FALSE]]
  /\ UNCHANGED <<archiverVars, g_OpenArchives, g_NextHandle, ret, hist>>

\* a thread begins its operation on the map
Enter(t) ==
  /\ pc[t] # Idle /\ ~pc[t].inside
  /\ pc' = [u \in Threads |->
              IF u = t
                THEN [pc[t] EXCEPT !.inside = TRUE,
                                   !.raced = \E v \in Threads \ {t} : Conflict(t, v)]
              ELSE IF Conflict(t, u) THEN [pc[u] EXCEPT !.raced = TRUE]
              ELSE pc[u]]
  /\ UNCHANGED <<archiverVars, g_OpenArchives, g_NextHandle, ret, hist>>

\* g_OpenArchives[newHandle] = std::move(state) ends and OpenArchiveW returns
LeaveInsert(t, outcome) ==
  /\ At(t, "insert") /\ Inside(t)
  /\ g_OpenArchives' = IF outcome = "done"
                         THEN Inserted(g_OpenArchives, pc[t].h, NewState(pc[t].list))
                         ELSE g_OpenArchives
  /\ ret' = [op |-> "OpenArchiveW", handle |-> pc[t].h, OpenResult |-> 0,
             before |-> g_OpenArchives, given |-> hist.returned]
  /\ hist' = [hist EXCEPT !.returned = @ \cup {pc[t].h},
                          !.calls = (pc[t].h :> 0) @@ @]
  /\ pc' = [pc EXCEPT ![t] = Idle]
  /\ UNCHANGED <<archiverVars, g_NextHandle>>

\* g_OpenArchives.find(hArcData) ends
Found(t, outcome) ==
  IF outcome = "done" THEN Registered(pc[t].h) ELSE ~Registered(pc[t].h)

LeaveFind(t, outcome) ==
  /\ At(t, "find") /\ Inside(t)
  /\ IF Found(t, outcome)
       THEN /\ pc' = [pc EXCEPT ![t] = [at |-> "erase", h |-> pc[t].h,
                                        inside |-> FALSE, raced |-> FALSE]]
            /\ UNCHANGED ret
       ELSE /\ pc' = [pc EXCEPT ![t] = Idle]
            /\ ret' = [op |-> "CloseArchive", handle |-> pc[t].h,
                       code |-> E_BAD_ARCHIVE,
                       wasClosed |-> pc[t].h \in hist.closed]
  /\ UNCHANGED <<archiverVars, g_OpenArchives, g_NextHandle, hist>>

\* g_OpenArchives.erase(hArcData) ends and CloseArchive returns 0
LeaveErase(t, outcome) ==
  /\ At(t, "erase") /\ Inside(t)
  /\ g_OpenArchives' = IF outcome = "done" THEN Erased(g_OpenArchives, pc[t].h)
                       ELSE g_OpenArchives
  /\ ret' = [op |-> "CloseArchive", handle |-> pc[t].h, code |-> 0,
             wasClosed |-> pc[t].h \in hist.closed]
  /\ hist' = [hist EXCEPT !.closed = @ \cup {pc[t].h}]
  /\ pc' = [pc EXCEPT ![t] = Idle]
  /\ UNCHANGED <<archiverVars, g_NextHandle>>

NextThreads ==
  \/ \E inputPaths \in ShimInputLists :
       Create(inputPaths, <<DotName>>, <<>>, QuietEnv)
  \/ \E pos \in ShimPositions :
       (ret = NoRet /\ g_NextHandle = 0) /\ AlterByte(pos, 1)
  \/ \E t \in Threads : ThreadOpen(t, TRUE)
  \/ \E t \in Threads, h \in Handles : ThreadClose(t, h)
  \/ \E t \in Threads : Enter(t)
  \/ \E t \in Threads : \E outcome \in Outcomes(t) : LeaveInsert(t, outcome)
  \/ \E t \in Threads : \E outcome \in Outcomes(t) : LeaveFind(t, outcome)
  \/ \E t \in Threads : \E outcome \in Outcomes(t) : LeaveErase(t, outcome)

SpecThreads == InitWith(ReadFs) /\ [][NextThreads]_vars

(***************************************************************************)
(* Vocabulary of the properties.                                           *)
(***************************************************************************)
Created == phase = "created"
Pristine == altered = NoChange
Ran(op) == res # NoRes /\ res.op = op
IsFileEntry(r) == r.e.type = TypeFile
IsDirEntry(r) == r.e.type = TypeDirectory

\* the 1-based positions of the archive file that hold the central directory
\* Create wrote, and those that hold the compressed bytes of entry r
InCentralDir(pos) == pos > made.header.centralDirOffset
InDataOf(r, pos) ==
  IsFileEntry(r) /\ pos > r.e.dataOffset /\ pos <= r.e.dataOffset + r.e.compressedSize

ByteAltered == altered # NoChange /\ altered.kind = "byte"
Truncated == altered # NoChange /\ altered.kind = "trunc"

\* the first entry Create wrote under a path, if any
HasEntry(name) == \E i \in 1..Len(made.cd) : made.cd[i].path = name
FirstEntry(name) ==
  made.cd[CHOOSE i \in 1..Len(made.cd) :
            /\ made.cd[i].path = name
            /\ \A j \in 1..(i - 1) : made.cd[j].path # name]

RECURSIVE SumCompressed(_)
SumCompressed(cd) ==
  IF cd = <<>> THEN 0
  ELSE (IF IsFileEntry(cd[1]) THEN cd[1].e.compressedSize ELSE 0)
         + SumCompressed(Tail(cd))

(***************************************************************************)
(* C1.  Round trip: after Create and then ExtractAll on the archive it     *)
(* wrote, every input file that Create could open is in the output under   *)
(* its in-archive path, with exactly the bytes of the source file.         *)
(***************************************************************************)
C1_RoundTrip ==
  (Created /\ Pristine /\ Ran("ExtractAll")) =>
    /\ res.err = "Ok"
    /\ \A i \in 1..Len(made.files) :
         LET f == made.files[i]
             p == InternalPath(f, made.basePath, made.internalBasePath)
         IN Canon(f) \notin made.env.unreadable =>
              p \in DOMAIN res.files /\ res.files[p] = fs[Canon(f)]

\* two non-empty files went through Create and ExtractAll
C1_Witness ==
  /\ Created /\ Pristine /\ Ran("ExtractAll") /\ res.err = "Ok"
  /\ Len(made.files) = 2
  /\ made.env.unreadable = {}
  /\ \A i \in 1..2 : fs[Canon(made.files[i])] # <<>>
  /\ \E p, q \in DOMAIN res.files : res.files[p] # res.files[q]

(***************************************************************************)
(* C2.  In the central directory Create wrote, every Directory entry comes *)
(* before every File entry, and within each group the stored paths are     *)
(* strictly ascending in lexicographic byte order.                         *)
(***************************************************************************)
C2_Ordering ==
  Created =>
    \A i, j \in 1..Len(made.cd) :
      i < j =>
        /\ IsDirEntry(made.cd[j]) => IsDirEntry(made.cd[i])
        /\ made.cd[i].e.type = made.cd[j].e.type =>
             BytesLess(made.cd[i].path, made.cd[j].path)

(***************************************************************************)
(* C3.  List never returns a list shorter than the header's entryCount: a  *)
(* walk of the central-directory buffer that would overrun it fails.       *)
(***************************************************************************)
C3_NoShortList ==
  (Created /\ Ran("List") /\ res.err = "Ok") =>
    Len(res.list) = ReadHeader(archive).entryCount

(***************************************************************************)
(* C4.  With any byte of the central directory altered, ExtractData fails  *)
(* with BadArchive, whatever entry of the archive is asked for.            *)
(***************************************************************************)
C4_ExtractDataValidates ==
  (/\ Created /\ ByteAltered /\ InCentralDir(altered.pos)
   /\ Ran("ExtractData") /\ HasEntry(res.name)) =>
    res.err = "BadArchive"

(***************************************************************************)
(* C5.  List is gated by the CRC32 of the central directory.  On an        *)
(* archive as Create left it the CRC32 of the bytes from centralDirOffset  *)
(* to the end of the file is the header's centralDirCRC32 and List returns *)
(* the entries; after a change to a byte of the central directory List     *)
(* fails with BadArchive; and whenever the file holds a whole header with  *)
(* the magic and the range from centralDirOffset to its end, List fails    *)
(* with BadArchive if the CRC32 of that range is not the header's.         *)
(***************************************************************************)
CdRangeExists ==
  Len(archive) >= HeaderSize /\ ReadHeader(archive).centralDirOffset <= Len(archive)

C5_CrcGate ==
  (Created /\ Ran("List")) =>
    /\ Pristine =>
         /\ crc32(SubSeq(archive, made.header.centralDirOffset + 1, Len(archive)))
              = ReadHeader(archive).centralDirCRC32
         /\ res.err = "Ok"
         /\ Len(res.list) = Len(made.cd)
         /\ \A i \in 1..Len(made.cd) :
              res.list[i].e = made.cd[i].e /\ res.list[i].path = made.cd[i].path
    /\ (ByteAltered /\ InCentralDir(altered.pos)) => res.err = "BadArchive"
    /\ LET h == ReadHeader(archive)
       IN (h.magic = ACF_MAGIC /\ CdRangeExists
           /\ crc32(SubSeq(archive, h.centralDirOffset + 1, Len(archive)))
                # h.centralDirCRC32)
          => res.err = "BadArchive"

\* a byte of a non-empty central directory was changed and List refused
C5_Witness ==
  /\ Created /\ ByteAltered /\ InCentralDir(altered.pos) /\ made.cd # <<>>
  /\ Ran("List") /\ res.err = "BadArchive"

(***************************************************************************)
(* C6.  List on an archive cut to any shorter length fails with            *)
(* BadArchive: it never returns a list.                                    *)
(***************************************************************************)
C6_TruncatedFails ==
  (Created /\ Truncated /\ Ran("List")) => res.err = "BadArchive"

C8_SizesFromRead ==
  Created =>
    \A i \in 1..Len(made.cd) :
      IsFileEntry(made.cd[i]) =>
        /\ made.cd[i].e.crc32 = crc32(made.cd[i].read)
        /\ made.cd[i].e.originalSize = Len(made.cd[i].read)

(***************************************************************************)
(* C9.  ExtractData never returns bytes whose CRC32 differs from the       *)
(* stored crc32 of the entry it found.  With one byte altered inside the   *)
(* compressed data of a file and the central directory intact, List        *)
(* succeeds, and ExtractData on that file either fails with                *)
(* CompressorError or CRCMismatch or returns bytes whose CRC32 is the      *)
(* stored crc32.                                                           *)
(***************************************************************************)
InSomeData(pos) == \E i \in 1..Len(made.cd) : InDataOf(made.cd[i], pos)
AlteredDataOf(name) ==
  /\ ByteAltered
  /\ \E i \in 1..Len(made.cd) :
       made.cd[i].path = name /\ InDataOf(made.cd[i], altered.pos)

C9_DataCrcGate ==
  /\ (Created /\ Ran("ExtractData") /\ res.err = "Ok") =>
       LET h == ReadHeader(archive)
           hit == ScanFor(archive, h.centralDirOffset, h.entryCount, res.name)
       IN hit.found /\ crc32(res.data) = hit.e.crc32
  /\ (Created /\ ByteAltered /\ InSomeData(altered.pos) /\ Ran("List")) =>
       res.err = "Ok" /\ Len(res.list) = Len(made.cd)
  /\ (Created /\ Ran("ExtractData") /\ AlteredDataOf(res.name)) =>
       \/ res.err \in {"CompressorError", "CRCMismatch"}
       \/ res.err = "Ok" /\ crc32(res.data) = FirstEntry(res.name).e.crc32

\* the statement without the third outcome
C9_Original ==
  /\ (Created /\ Ran("ExtractData") /\ res.err = "Ok") =>
       LET h == ReadHeader(archive)
           hit == ScanFor(archive, h.centralDirOffset, h.entryCount, res.name)
       IN hit.found /\ crc32(res.data) = hit.e.crc32
  /\ (Created /\ ByteAltered /\ InSomeData(altered.pos) /\ Ran("List")) =>
       res.err = "Ok"
  /\ (Created /\ Ran("ExtractData") /\ AlteredDataOf(res.name)) =>
       res.err \in {"CompressorError", "CRCMismatch"}

\* a byte of a file's compressed data was changed and the CRC check caught it
C9_Witness ==
  /\ Created /\ Ran("ExtractData") /\ AlteredDataOf(res.name)
  /\ res.err = "CRCMismatch"

(***************************************************************************)
(* C10.  ExtractData on an archive whose central directory is as Create    *)
(* wrote it finds the entry by exact equality of the stored path, taking   *)
(* the first match in central-directory order: NotFound if no entry has    *)
(* the name, InvalidOperation if the first match is a Directory, and data  *)
(* only from a File entry - the data of the first match.                   *)
(***************************************************************************)
CdIntact ==
  \/ Pristine
  \/ ByteAltered /\ altered.pos > HeaderSize /\ ~InCentralDir(altered.pos)

C10_Lookup ==
  (Created /\ CdIntact /\ Ran("ExtractData")) =>
    IF ~HasEntry(res.name) THEN res.err = "NotFound"
    ELSE LET r == FirstEntry(res.name)
         IN IF IsDirEntry(r) THEN res.err = "InvalidOperation"
            ELSE /\ res.err = "Ok" => res.data = r.read
                 /\ (Pristine \/ ~InDataOf(r, altered.pos)) => res.err = "Ok"

\* two entries share a path, the data of the second is damaged, and the
\* lookup returned the data of the first
C10_Witness ==
  /\ Created /\ ByteAltered /\ Ran("ExtractData") /\ res.err = "Ok"
  /\ \E i, j \in 1..Len(made.cd) :
       /\ i < j
       /\ made.cd[i].path = res.name /\ made.cd[j].path = res.name
       /\ InDataOf(made.cd[j], altered.pos)
       /\ res.data = made.cd[i].read /\ res.data # <<>>

(***************************************************************************)
(* C11.  List and ExtractData fail with UnknownFormat whenever the first   *)
(* four bytes of the archive file are not the magic: the magic that is     *)
(* compared was read from the file.                                        *)
(***************************************************************************)
FirstFour == SubSeq(archive, 1, Min(4, Len(archive)))

C11_MagicFromFile ==
  (Created /\ (Ran("List") \/ Ran("ExtractData")) /\ FirstFour # ACF_MAGIC) =>
    res.err = "UnknownFormat"

(***************************************************************************)
(* C12.  The progress callbacks of Create are, for each file of the sorted *)
(* work list in order, one call with progress 0 and then one with progress *)
(* 1 for the same file, before the next file's first call; no call names a *)
(* directory entry; and the last call is ("Done.", 1, 1).                  *)
(***************************************************************************)
C12_ProgressPairs ==
  (Created /\ made.by = "Create") =>
    LET ev == made.events
        n == Len(made.files)
    IN /\ Len(ev) = 2 * n + 1
       /\ ev[Len(ev)] = DoneEvent
       /\ \A i \in 1..n :
            LET p == InternalPath(made.files[i], made.basePath, made.internalBasePath)
            IN /\ ev[2 * i - 1].file = p /\ ev[2 * i - 1].current = 0
               /\ ev[2 * i].file = p /\ ev[2 * i].current = 1
       /\ \A i \in 1..(Len(ev) - 1), j \in 1..Len(made.cd) :
            IsDirEntry(made.cd[j]) => ev[i].file # made.cd[j].path

(***************************************************************************)
(* C14.  When a source file cannot be opened, Create goes on: that file    *)
(* gets no entry and adds no bytes to the body, every other collected file *)
(* and every directory gets its entry, and List on the archive succeeds    *)
(* and returns exactly those entries.                                      *)
(***************************************************************************)
Readable(f) == Canon(f) \notin made.env.unreadable
FileEntriesOf(cd) == SelectSeq(cd, IsFileEntry)
DirEntriesOf(cd) == SelectSeq(cd, IsDirEntry)

RECURSIVE FramesOf(_)
FramesOf(cd) ==
  IF cd = <<>> THEN <<>>
  ELSE (IF IsFileEntry(cd[1]) THEN ZCompress(cd[1].read) ELSE <<>>)
         \o FramesOf(Tail(cd))

C14_SkipUnreadable ==
  (Created /\ Pristine /\ made.env.unreadable # {}) =>
    LET kept == SelectSeq(made.files, Readable)
        fe == FileEntriesOf(made.cd)
        de == DirEntriesOf(made.cd)
        h == ReadHeader(archive)
    IN /\ Len(fe) = Len(kept)
       /\ \A i \in 1..Len(fe) :
            fe[i].src = kept[i] /\ fe[i].read = fs[Canon(kept[i])]
       /\ Len(de) = Len(made.dirs)
       /\ \A i \in 1..Len(de) : de[i].src = made.dirs[i]
       /\ SubSeq(archive, HeaderSize + 1, h.centralDirOffset) = FramesOf(made.cd)
       /\ Ran("List") =>
            /\ res.err = "Ok"
            /\ Len(res.list) = Len(made.cd)
            /\ \A i \in 1..Len(made.cd) :
                 res.list[i].e = made.cd[i].e /\ res.list[i].path = made.cd[i].path

\* one file was passed over, another was stored, and List returned the rest
C14_Witness ==
  /\ Created /\ Pristine /\ Ran("List") /\ res.err = "Ok"
  /\ \E i \in 1..Len(made.files) : ~Readable(made.files[i])
  /\ \E i \in 1..Len(made.files) : Readable(made.files[i])
  /\ Len(res.list) = Len(SelectSeq(made.files, Readable)) + Len(made.dirs)
  /\ Len(res.list) < Len(made.files) + Len(made.dirs)

(***************************************************************************)
(* C15.  When an entry's output file cannot be opened during ExtractAll,   *)
(* ExtractAll stops with an error at that entry: it processes no later     *)
(* entry, does not succeed and does not make the final "Done." callback.   *)
(***************************************************************************)
C15_StopsOnWriteFailure ==
  (Created /\ Pristine /\ Ran("ExtractAll")) =>
    \A i \in 1..Len(made.cd) :
      (IsFileEntry(made.cd[i]) /\ made.cd[i].path \in res.unwritable) =>
        /\ res.err # "Ok"
        /\ Len(res.processed) < i
        /\ \A k \in 1..Len(res.events) : res.events[k] # DoneEvent

(***************************************************************************)
(* C17.  Extract(names), on an archive whose central directory is as       *)
(* Create wrote it, processes exactly the entries whose stored path is one *)
(* of the names, each once and in central-directory order, whatever the    *)
(* order or repetition of the names; a name no entry has gives no error    *)
(* and no output; and it stops at the first entry whose ExtractData fails, *)
(* with that error, the entries before it extracted.                       *)
(***************************************************************************)
Wanted(r) == \E k \in 1..Len(res.names) : res.names[k] = r.path
DataFails(r) == IsFileEntry(r) /\ ExtractDataRun(archive, r.path, TRUE).err # "Ok"

C17_ExtractSelected ==
  (Created /\ CdIntact /\ Ran("Extract")) =>
    LET sel == SelectSeq(made.cd, Wanted)
        bad == {k \in 1..Len(sel) : DataFails(sel[k])}
        stop == IF bad = {} THEN Len(sel) + 1
                ELSE CHOOSE k \in bad : \A j \in bad : k <= j
    IN /\ res.processed = [k \in 1..(stop - 1) |-> sel[k].path]
       /\ (res.err = "Ok") <=> (bad = {})
       /\ bad # {} => res.err = ExtractDataRun(archive, sel[stop].path, TRUE).err
       /\ res.dirs = {sel[k].path : k \in {j \in 1..(stop - 1) : IsDirEntry(sel[j])}}
       /\ DOMAIN res.files =
            {sel[k].path : k \in {j \in 1..(stop - 1) :
                                    IsFileEntry(sel[j])
                                    /\ sel[j].path \notin res.unwritable}}
       /\ \A k \in 1..(stop - 1) :
            (IsFileEntry(sel[k]) /\ sel[k].path \notin res.unwritable) =>
              res.files[sel[k].path] = sel[k].read

\* two names given against central-directory order: both entries were
\* processed, in central-directory order
C17_Witness ==
  /\ Created /\ Ran("Extract") /\ res.err = "Ok"
  /\ Len(res.processed) = 2 /\ res.processed[1] # res.processed[2]
  /\ \E k \in 1..(Len(made.cd) - 1) :
       made.cd[k].path = res.processed[1] /\ made.cd[k + 1].path = res.processed[2]
  /\ res.names = <<res.processed[2], res.processed[1]>>

(***************************************************************************)
(* C13.  Every entry Create or CreateData writes has pathLength equal to   *)
(* the byte length of its stored path: a path of 65536 bytes or more is    *)
(* not stored with a pathLength taken modulo 2^16.                         *)
(***************************************************************************)
C13_ExactPathLength ==
  Created =>
    \A i \in 1..Len(made.cd) : made.cd[i].e.pathLength = Len(made.cd[i].path)

(***************************************************************************)
(* C16.  In every archive Create or CreateData writes, each File entry has *)
(* 32 <= dataOffset, 32 being the size of the header, and                  *)
(* dataOffset + compressedSize <= centralDirOffset, and the data ranges of *)
(* distinct File entries do not overlap.                                   *)
(***************************************************************************)
DataEnd(r) == r.e.dataOffset + r.e.compressedSize

Listed == ListRun(archive, TRUE).list
IsOpen(h) == h \in hist.returned \ hist.closed
Called(op) == ret # NoRet /\ ret.op = op

C18_Iteration ==
  /\ (Called("ReadHeaderExW") /\ IsOpen(ret.handle)) =>
       IF hist.calls[ret.handle] <= Len(Listed)
         THEN /\ ret.code = 0
              /\ ret.HeaderData = HeaderOf(Listed[hist.calls[ret.handle]])
         ELSE ret.code = E_END_ARCHIVE
  /\ (Called("ProcessFileW") /\ IsOpen(ret.handle)) =>
       IF hist.calls[ret.handle] = 0 \/ hist.calls[ret.handle] > Len(Listed)
         THEN ret.out.code = E_BAD_ARCHIVE
         ELSE /\ ret.out.code # E_BAD_ARCHIVE
              /\ ret.out.entry = Listed[hist.calls[ret.handle]]

\* the second entry of an archive was read and then extracted as a file
C18_Witness ==
  /\ Called("ProcessFileW") /\ IsOpen(ret.handle)
  /\ ret.Operation = PK_EXTRACT /\ ret.out.code = 0
  /\ hist.calls[ret.handle] = 2
  /\ ret.out.entry.e.type = TypeFile
  /\ ret.out.data # <<>>

(***************************************************************************)
(* C19.  Under calls made one after another the registry holds exactly the *)
(* handles successful opens returned and no close has removed; a new       *)
(* handle differs from every handle returned before; a failed OpenArchiveW *)
(* returns -1 with OpenResult not 0 and leaves the registry as it was; on  *)
(* a closed handle ReadHeaderExW, ProcessFileW and CloseArchive return     *)
(* E_BAD_ARCHIVE.                                                          *)
(***************************************************************************)
C19_Registry ==
  /\ DOMAIN g_OpenArchives = hist.returned \ hist.closed
  /\ (Called("OpenArchiveW") /\ ret.handle # InvalidHandle) =>
       ret.handle \notin ret.given
  /\ (Called("OpenArchiveW") /\ ret.handle = InvalidHandle) =>
       ret.OpenResult # 0 /\ g_OpenArchives = ret.before
  /\ ((Called("ReadHeaderExW") \/ Called("CloseArchive")) /\ ret.wasClosed) =>
       ret.code = E_BAD_ARCHIVE
  /\ (Called("ProcessFileW") /\ ret.wasClosed) => ret.out.code = E_BAD_ARCHIVE

\* two handles were given out, one was closed and then read from
C19_Witness ==
  /\ Called("ReadHeaderExW") /\ ret.wasClosed
  /\ Cardinality(hist.returned) = 2
  /\ Cardinality(DOMAIN g_OpenArchives) = 1

(***************************************************************************)
(* C20.  With OpenArchiveW and CloseArchive running on different threads,  *)
(* the handles drawn are distinct, no thread is inside an operation on the *)
(* registry map while another thread is inside one that modifies it, and   *)
(* once every call has returned the registry holds every handle that was   *)
(* returned and not closed.                                                *)
(***************************************************************************)
C20_RegistrySafe ==
  /\ \A t, u \in Threads :
       (t # u /\ At(t, "insert") /\ At(u, "insert")) => pc[t].h # pc[u].h
  /\ \A t \in Threads : At(t, "insert") => pc[t].h \notin hist.returned
  /\ \A t, u \in Threads :
       (t # u /\ Inside(t) /\ Inside(u)) => ~(Writes(t) \/ Writes(u))
  /\ (\A t \in Threads : pc[t] = Idle) =>
       hist.returned \ hist.closed \subseteq DOMAIN g_OpenArchives

====
